---- MODULE Spec2Model ----
(***************************************************************************)
(* A model of turing.py: the sparse Tape and the TuringMachine step        *)
(* protocol (__init__, _validate_table, __next__).                         *)
(*                                                                         *)
(* Python values are written as strings: "0" and "1" are the one-character *)
(* strings '0' and '1', "" is the empty string, "#" is a character outside *)
(* the alphabet, "None" is None, "int0", "int1", "int2", "intm1" are the   *)
(* integers 0, 1, 2, -1, and "Stay", "Right", "Left" are the members of    *)
(* the Move enum.  A string of more than one character is its own text:    *)
(* "-1" is str(-1) and "Move.Stay" is str(Move.Stay).                      *)
(* A tape description is a list of tuples (kind "pairs") or a list that    *)
(* holds no tuple (kind "chars").  The dictionary _tape is kept in two     *)
(* parts: tape has the cells whose key is an integer, chartape the cells   *)
(* whose key is a character (a key the first reading of Tape.__init__      *)
(* takes from a two-character string).                                     *)
(* An optional integer (a report field that is an int or None) is a        *)
(* sequence: <<>> is None and <<n>> is the integer n.                      *)
(***************************************************************************)
EXTENDS Integers, Sequences, FiniteSets, TLC

VARIABLES tapelist, table, machine, hasTape, tape, minIndex, maxIndex, chartape,
          view, state, head, started, frame, result, calls, it

vars == <<tapelist, table, machine, hasTape, tape, minIndex, maxIndex, chartape,
          view, state, head, started, frame, result, calls, it>>

(***************************************************************************)
(* Bounds of the model.                                                    *)
(***************************************************************************)
MaxEntries == 1
MaxTapeLen == 1
MaxCalls == 12
MaxWrites == 3

(***************************************************************************)
(* Python values and conversions.                                          *)
(***************************************************************************)
NONE == "None"

\* string.ascii_letters, string.digits
ascii_letters ==
    {"a", "b", "c", "d", "e", "f", "g", "h", "i", "j", "k", "l", "m",
     "n", "o", "p", "q", "r", "s", "t", "u", "v", "w", "x", "y", "z",
     "A", "B", "C", "D", "E", "F", "G", "H", "I", "J", "K", "L", "M",
     "N", "O", "P", "Q", "R", "S", "T", "U", "V", "W", "X", "Y", "Z"}
digits == {"0", "1", "2", "3", "4", "5", "6", "7", "8", "9"}

\* SYMBOLS: the letters, the digits, the underscore and ''.
SYMBOLS == ascii_letters \cup digits \cup {"_"} \cup {""}

\* str(v): the text of an integer, of None and of a member of Move; a
\* string is its own text.
Str(v) == CASE v = "int0" -> "0"
            [] v = "int1" -> "1"
            [] v = "int2" -> "2"
            [] v = "intm1" -> "-1"
            [] v = "Stay" -> "Move.Stay"
            [] v = "Right" -> "Move.Right"
            [] v = "Left" -> "Move.Left"
            [] OTHER -> v

\* len(s) of a string s
PyLen(s) == Len(s)

\* isinstance(v, str): every value but None, the integers and the members
\* of Move.
IsStr(v) == v \notin {NONE, "int0", "int1", "int2", "intm1", "Stay", "Right", "Left"}

\* bool(v)
Truthy(v) == v \notin {"", NONE, "int0"}

\* isinstance(m, Move)
IsMove(m) == m \in {"Stay", "Right", "Left"}

\* m.value for a member m of Move
MoveValue(m) == CASE m = "Stay" -> 0
                  [] m = "Right" -> 1
                  [] m = "Left" -> -1

\* m in (-1, 0, 1)
IsLegalInt(m) == m \in {"intm1", "int0", "int1"}

Min(S) == CHOOSE n \in S : \A k \in S : n <= k
Max(S) == CHOOSE n \in S : \A k \in S : n >= k

\* The printable ASCII characters in the order of their code points: from
\* the space (32) to the underscore (95), and from the letter a (97) to the
\* tilde (126).  The grave accent (96) cannot be written in a string here.
AsciiLow ==
  <<" ", "!", "\"", "#", "$", "%", "&", "'", "(", ")", "*", "+",
     ",", "-", ".", "/", "0", "1", "2", "3", "4", "5", "6", "7",
     "8", "9", ":", ";", "<", "=", ">", "?", "@", "A", "B", "C",
     "D", "E", "F", "G", "H", "I", "J", "K", "L", "M", "N", "O",
     "P", "Q", "R", "S", "T", "U", "V", "W", "X", "Y", "Z", "[",
     "\\", "]", "^", "_">>
AsciiHigh ==
  <<"a", "b", "c", "d", "e", "f", "g", "h", "i", "j", "k", "l",
     "m", "n", "o", "p", "q", "r", "s", "t", "u", "v", "w", "x",
     "y", "z", "{", "|", "}", "~">>

\* ord(c) of a printable ASCII character c
Ord(c) == IF \E n \in 1..Len(AsciiLow) : AsciiLow[n] = c
          THEN 31 + (CHOOSE n \in 1..Len(AsciiLow) : AsciiLow[n] = c)
          ELSE 96 + (CHOOSE n \in 1..Len(AsciiHigh) : AsciiHigh[n] = c)

\* min() and max() of a set of characters: strings compare by code point.
MinChar(S) == CHOOSE c \in S : \A k \in S : Ord(c) <= Ord(k)
MaxChar(S) == CHOOSE c \in S : \A k \in S : Ord(c) >= Ord(k)

(***************************************************************************)
(* Tape                                                                    *)
(***************************************************************************)

\* Tape.__init__, first reading: a list of (cell number, value) pairs; the
\* pairs whose value is None are dropped, a later pair replaces an earlier
\* one with the same cell number, and every value is stored as str(value).
PairsDict(items) ==
    LET kept == {i \in 1..Len(items) : items[i][2] # NONE}
        keys == {items[i][1] : i \in kept}
        last(k) == Max({i \in kept : items[i][1] = k})
    IN [k \in keys |-> Str(items[last(k)][2])]

\* Tape.__init__, second reading, taken when an item does not unpack into a
\* pair: a sequence of single values, numbered from 0, each stored as
\* str(value).
CharsDict(items) == [k \in 0..(Len(items) - 1) |-> Str(items[k + 1])]

\* (cell_n, val) = a for an item a that is no tuple: only a string of two
\* characters unpacks; a shorter or longer string raises ValueError, and
\* None, an integer or a member of Move raises TypeError.
Unpacks(a) == IsStr(a) /\ Len(a) = 2

\* The first reading does not raise: every item unpacks into a pair.
FirstReading(tl) ==
    tl.kind = "pairs" \/ \A n \in 1..Len(tl.chars) : Unpacks(tl.chars[n])

\* Tape.__init__, first reading of a list of two-character strings: the
\* first character is the cell number, the second the value.
TextPairsDict(items) ==
    LET keys == {SubSeq(items[n], 1, 1) : n \in 1..Len(items)}
        last(k) == Max({n \in 1..Len(items) : SubSeq(items[n], 1, 1) = k})
    IN [k \in keys |-> Str(SubSeq(items[last(k)], 2, 2))]

\* The dictionary Tape.__init__ builds from a tape description: the first
\* reading, or the second when an item does not unpack.
TapeDict(tl) == IF tl.kind = "pairs" THEN PairsDict(tl.pairs)
                ELSE IF FirstReading(tl) THEN TextPairsDict(tl.chars)
                ELSE CharsDict(tl.chars)

\* The keys of that dictionary are characters.
KeysAreChars(tl) == tl.kind = "chars" /\ tl.chars # <<>> /\ FirstReading(tl)

\* The check of Tape.__init__ on the cells: one character of SYMBOLS each.
InvalidCells(d) == \E k \in DOMAIN d : PyLen(d[k]) > 1 \/ d[k] \notin SYMBOLS

\* Tape.__getitem__ that returns '' for a cell that is not stored.
GetItemEmptyString(d, key) == IF key \in DOMAIN d THEN d[key] ELSE ""

\* Tape.__getitem__: None for a cell that is not stored.
GetItem(d, key) == IF key \in DOMAIN d THEN d[key] ELSE NONE

\* Tape.__setitem__ that keeps the old value of a cell that is already
\* stored instead of replacing it.
SetItemKeepsOld(d, key, value) ==
    IF value = ""
    THEN [k \in (DOMAIN d) \ {key} |-> d[k]]
    ELSE [k \in (DOMAIN d) \cup {key} |-> IF k \in DOMAIN d THEN d[k] ELSE value]

\* Tape.__setitem__ that stores the cell in a fresh dictionary.
SetItemFresh(d, key, value) ==
    IF value = ""
    THEN <<>>
    ELSE [k \in {key} |-> value]

\* The dictionary after Tape.__setitem__: '' deletes the cell, any other
\* value is stored as given.
SetItem(d, key, value) ==
    IF value = ""
    THEN [k \in (DOMAIN d) \ {key} |-> d[k]]
    ELSE [k \in (DOMAIN d) \cup {key} |-> IF k = key THEN value ELSE d[k]]

\* min() and max() in Tape.__setitem__ and Tape.__init__ over the keys of
\* the dictionary, d its cells with integer keys and c its cells with
\* character keys: ValueError without keys, TypeError when an integer is
\* compared with a character.
MinMaxRaises(d, c) ==
    IF DOMAIN d = {} /\ DOMAIN c = {} THEN "ValueError"
    ELSE IF DOMAIN d # {} /\ DOMAIN c # {} THEN "TypeError"
    ELSE "no"

MinKey(d, c) == IF DOMAIN c # {} THEN MinChar(DOMAIN c) ELSE Min(DOMAIN d)
MaxKey(d, c) == IF DOMAIN c # {} THEN MaxChar(DOMAIN c) ELSE Max(DOMAIN d)

\* A view that copies the cells when it is made.
TapeViewSnapshot(d) == [bound |-> FALSE, cells |-> d]

\* Tape.TapeView(self): the view keeps a reference to the Tape it is bound
\* to and no cells of its own.
TapeView(d) == [bound |-> TRUE, cells |-> <<>>]

\* No view: the Tape was not built.
NoView == [bound |-> FALSE, cells |-> <<>>]

\* TapeView.__getitem__: self._tape[key], a read of the Tape the view holds.
ViewGetItem(v, key) == GetItem(IF v.bound THEN tape ELSE v.cells, key)

\* No iteration: no generator was made.
NoIter == [status |-> "none", of |-> NoView, i |-> 0, stop |-> 0, last |-> <<>>]

(***************************************************************************)
(* Transition tables                                                       *)
(***************************************************************************)

\* _validate_table without its check of the move.
ValidEntryNoMoveCheck(key, val) ==
    /\ ~ (Str(key[2]) \notin SYMBOLS /\ key[2] # NONE)
    /\ ~ (Str(val[1]) \notin SYMBOLS)

\* _validate_table on one entry.
ValidEntry(key, val) ==
    /\ ~ (Str(key[2]) \notin SYMBOLS /\ key[2] # NONE)
    /\ ~ (Str(val[1]) \notin SYMBOLS)
    /\ ~ (~ IsMove(val[2]) /\ ~ IsLegalInt(val[2]))

\* _validate_table returns without raising ValueError.
ValidTable(t) == \A key \in DOMAIN t : ValidEntry(key, t[key])

\* The table of the demonstration at the end of turing.py.
instructions ==
    (<<0, "0">> :> <<"1", "Right", 0>>) @@ (<<0, "1">> :> <<"0", "Right", 0>>)
    @@ (<<0, NONE>> :> <<"", "Right", 1>>) @@ (<<1, NONE>> :> <<"1", "Stay", 2>>)

\* The tape of the demonstration: list('0110100').
demotape == [kind |-> "chars", pairs |-> <<>>,
             chars |-> <<"0", "1", "1", "0", "1", "0", "0">>]

\* A tape given as the list [2], and a symbol given as the integer 2.
inttape == [kind |-> "chars", pairs |-> <<>>, chars |-> <<"int2">>]

\* A tape given as the list ['-1']: its one item unpacks into ('-', '1').
texttape == [kind |-> "chars", pairs |-> <<>>, chars |-> <<"-1">>]

(***************************************************************************)
(* The inputs the model draws from.                                        *)
(***************************************************************************)
\* The states the drawn tables use; the demonstration table adds state 2.
States == {0, 1}
KeySymbols == {"0", NONE}
OutSymbols == {"0", "", "int0"}
Moves == {"Stay", "Right", "Left", "int1"}
Keys == (States \X KeySymbols) \cup {<<0, "">>, <<0, "#">>}
Values == (OutSymbols \X Moves \X States)
          \cup {<<"#", "Right", 0>>, <<"0", "int2", 0>>, <<"int2", "Right", 0>>}
Tables == UNION {[K -> Values] : K \in {K \in SUBSET Keys : Cardinality(K) <= MaxEntries}}

SeqsUpTo(S, n) == UNION {[1..m -> S] : m \in 0..n}
CharLists == {[kind |-> "chars", pairs |-> <<>>, chars |-> q] :
                 q \in SeqsUpTo({"0", "", "#"}, MaxTapeLen)}
PairLists == {[kind |-> "pairs", pairs |-> q, chars |-> <<>>] :
                 q \in SeqsUpTo({-1} \X {"0", NONE}, MaxTapeLen) \ {<<>>}}
TapeLists == CharLists \cup PairLists

NoFrame == [current_state |-> <<>>, symbol_under_head |-> "unset"]
NoResult == [kind |-> "none", state |-> <<>>, head |-> <<>>, tape |-> NoView,
             cell_written |-> <<>>, symbol_written |-> NONE, move |-> NONE]

Init ==
    /\ tapelist \in TapeLists \cup {demotape, inttape, texttape}
    /\ table \in Tables \cup {instructions}
    /\ machine = "none"
    /\ hasTape = FALSE
    /\ tape = <<>>
    /\ minIndex = 0
    /\ maxIndex = 0
    /\ chartape = <<>>
    /\ view = NoView
    /\ state = 0
    /\ head = 0
    /\ started = FALSE
    /\ frame = NoFrame
    /\ result = NoResult
    /\ calls = 0
    /\ it = NoIter

(***************************************************************************)
(* TuringMachine.__init__                                                  *)
(***************************************************************************)
Construct ==
    /\ machine = "none"
    /\ IF ~ ValidTable(table)
       THEN /\ machine' = "InvalidTable"
            /\ UNCHANGED <<hasTape, tape, minIndex, maxIndex, chartape, view>>
       ELSE LET d == TapeDict(tapelist)
                cells == IF KeysAreChars(tapelist) THEN <<>> ELSE d
                chars == IF KeysAreChars(tapelist) THEN d ELSE <<>>
            IN
            IF InvalidCells(d)
            THEN /\ machine' = "InvalidTapeDescription"
                 /\ UNCHANGED <<hasTape, tape, minIndex, maxIndex, chartape, view>>
            ELSE IF MinMaxRaises(cells, chars) = "ValueError"
            THEN /\ machine' = "EmptySequence"
                 /\ UNCHANGED <<hasTape, tape, minIndex, maxIndex, chartape, view>>
            ELSE /\ machine' = "ok"
                 /\ hasTape' = TRUE
                 /\ tape' = cells
                 /\ chartape' = chars
                 /\ minIndex' = MinKey(cells, chars)
                 /\ maxIndex' = MaxKey(cells, chars)
                 /\ view' = TapeView(cells)
    /\ UNCHANGED <<tapelist, table, state, head, started, frame, result, calls, it>>

(***************************************************************************)
(* TuringMachine.__next__                                                  *)
(***************************************************************************)

\* A lookup that falls back on the entry keyed by None for every symbol.
LookupWildcard(t, current_state, symbol_under_head) ==
    IF <<current_state, symbol_under_head>> \in DOMAIN t
    THEN <<t[<<current_state, symbol_under_head>>]>>
    ELSE IF <<current_state, NONE>> \in DOMAIN t
    THEN <<t[<<current_state, NONE>>]>>
    ELSE <<>>

\* self._table[current_state, symbol_under_head]: <<>> stands for the
\* KeyError, <<instruction>> for the instruction found.
Lookup(t, current_state, symbol_under_head) ==
    IF <<current_state, symbol_under_head>> \in DOMAIN t
    THEN <<t[<<current_state, symbol_under_head>>]>>
    ELSE <<>>

\* The first field of the TMActionReport without the subtraction of the
\* move: the head after the move.
cell_written_after_move(h, move, symbol_to_print) ==
    IF Truthy(symbol_to_print) THEN <<h>> ELSE <<>>

\* The first field of the TMActionReport.
cell_written(h, move, symbol_to_print) ==
    IF Truthy(symbol_to_print) THEN <<h - MoveValue(move)>> ELSE <<>>

\* The second field of the TMActionReport: symbol_to_print or None.
symbol_written(symbol_to_print) ==
    IF Truthy(symbol_to_print) THEN symbol_to_print ELSE NONE

\* The value __next__ returns: the TMReport, whose tape is the view the
\* property TuringMachine.tape returns (Tape.view(), the one view made in
\* Tape.__init__), and the TMActionReport.
Report(s, h, cw, sw, mv) ==
    [kind |-> "report", state |-> <<s>>, head |-> <<h>>, tape |-> view,
     cell_written |-> cw, symbol_written |-> sw, move |-> mv]

\* The exception __next__ raises.
Raise(e) == [NoResult EXCEPT !.kind = e]

\* The locals current_state and symbol_under_head of one call.
Frame(s, sym) == [current_state |-> <<s>>, symbol_under_head |-> sym]

\* The first pass without the update of the _started flag.
FirstPassKeepsFlag ==
    /\ machine = "ok"
    /\ calls < MaxCalls
    /\ ~ started
    /\ frame' = NoFrame
    /\ result' = Report(state, head, <<>>, NONE, NONE)
    /\ calls' = calls + 1
    /\ UNCHANGED it
    /\ UNCHANGED <<tapelist, table, machine, hasTape, tape, minIndex,
                   maxIndex, chartape, view, state, head, started>>

\* The first pass: no transition, the starting configuration is reported.
FirstPass ==
    /\ machine = "ok"
    /\ calls < MaxCalls
    /\ ~ started
    /\ started' = TRUE
    /\ frame' = NoFrame
    /\ result' = Report(state, head, <<>>, NONE, NONE)
    /\ calls' = calls + 1
    /\ UNCHANGED it
    /\ UNCHANGED <<tapelist, table, machine, hasTape, tape, minIndex,
                   maxIndex, chartape, view, state, head>>

\* A halt that clears the _started flag.
HaltClearsFlag ==
    /\ machine = "ok"
    /\ calls < MaxCalls
    /\ started
    /\ Lookup(table, state, GetItem(tape, head)) = <<>>
    /\ frame' = Frame(state, GetItem(tape, head))
    /\ result' = Raise("StopIteration")
    /\ started' = FALSE
    /\ calls' = calls + 1
    /\ UNCHANGED it
    /\ UNCHANGED <<tapelist, table, machine, hasTape, tape, minIndex,
                   maxIndex, chartape, view, state, head>>

\* A halt on every blank cell, whatever the table holds.
HaltOnBlank ==
    /\ machine = "ok"
    /\ calls < MaxCalls
    /\ started
    /\ \/ Lookup(table, state, GetItem(tape, head)) = <<>>
       \/ GetItem(tape, head) = NONE
    /\ frame' = Frame(state, GetItem(tape, head))
    /\ result' = Raise("StopIteration")
    /\ calls' = calls + 1
    /\ UNCHANGED it
    /\ UNCHANGED <<tapelist, table, machine, hasTape, tape, minIndex,
                   maxIndex, chartape, view, state, head, started>>

\* A later pass with no instruction for the state and the symbol under the
\* head: the KeyError becomes StopIteration.
Halt ==
    /\ machine = "ok"
    /\ calls < MaxCalls
    /\ started
    /\ Lookup(table, state, GetItem(tape, head)) = <<>>
    /\ frame' = Frame(state, GetItem(tape, head))
    /\ result' = Raise("StopIteration")
    /\ calls' = calls + 1
    /\ UNCHANGED it
    /\ UNCHANGED <<tapelist, table, machine, hasTape, tape, minIndex,
                   maxIndex, chartape, view, state, head, started>>

\* A later pass with an instruction: the state is updated, then the symbol
\* is printed (Tape.__setitem__, which recomputes the two indices and
\* raises ValueError when no cell is left and TypeError when the keys are
\* integers and characters), then the head is moved
\* (AttributeError when the move is not a member of Move), then the reports
\* are built.
Transition ==
    /\ machine = "ok"
    /\ calls < MaxCalls
    /\ started
    /\ Lookup(table, state, GetItem(tape, head)) # <<>>
    /\ LET instruction == Lookup(table, state, GetItem(tape, head))[1]
           symbol_to_print == instruction[1]
           move == instruction[2]
           next_state == instruction[3]
           d == SetItem(tape, head, symbol_to_print)
       IN /\ frame' = Frame(state, GetItem(tape, head))
          /\ state' = next_state
          /\ tape' = d
          /\ IF MinMaxRaises(d, chartape) # "no"
             THEN /\ result' = Raise(MinMaxRaises(d, chartape))
                  /\ UNCHANGED <<minIndex, maxIndex, head>>
             ELSE /\ minIndex' = MinKey(d, chartape)
                  /\ maxIndex' = MaxKey(d, chartape)
                  /\ IF ~ IsMove(move)
                     THEN /\ result' = Raise("AttributeError")
                          /\ UNCHANGED head
                     ELSE /\ head' = head + MoveValue(move)
                          /\ result' = Report(next_state, head + MoveValue(move),
                                 cell_written(head + MoveValue(move), move, symbol_to_print),
                                 symbol_written(symbol_to_print), move)
    /\ calls' = calls + 1
    /\ UNCHANGED it
    /\ UNCHANGED <<tapelist, table, machine, hasTape, chartape, view, started>>

next == FirstPass \/ Halt \/ Transition

Next == Construct \/ next

Spec == Init /\ [][Next]_vars

(***************************************************************************)
(* Iteration: Tape.__iter__ is a generator, so every pair is a step of its *)
(* own and writes can come between two pairs.                              *)
(***************************************************************************)

\* iter(v) on the view v, that is iter(self._tape): the generator is made
\* and none of its body has run.
NewIter ==
    /\ machine \in {"ok", "tape"}
    /\ it.status = "none"
    /\ it' = [NoIter EXCEPT !.status = "created", !.of = view]
    /\ UNCHANGED <<tapelist, table, machine, hasTape, tape, minIndex, maxIndex,
                   chartape, view, state, head, started, frame, result, calls>>

\* next() on the generator.  The first call evaluates range(_minIndex,
\* _maxIndex + 1), which raises TypeError when the indices are characters,
\* and yields its first pair; a later call goes on to the next number of
\* that range, or ends with StopIteration.  The pair is (i, self[i]) with
\* the cell read at the time of the call.
NextPair ==
    /\ it.status \in {"created", "running"}
    /\ LET i == IF it.status = "created" THEN minIndex ELSE it.i + 1
           stop == IF it.status = "created" THEN maxIndex ELSE it.stop
       IN IF it.status = "created" /\ DOMAIN chartape # {}
          THEN it' = [it EXCEPT !.status = "TypeError", !.last = <<>>]
          ELSE IF i > stop
          THEN it' = [it EXCEPT !.status = "done", !.last = <<>>]
          ELSE it' = [it EXCEPT !.status = "running", !.i = i, !.stop = stop,
                                !.last = <<i, ViewGetItem(it.of, i)>>]
    /\ UNCHANGED <<tapelist, table, machine, hasTape, tape, minIndex, maxIndex,
                   chartape, view, state, head, started, frame, result, calls>>

iterate == NewIter \/ NextPair

\* The machine with an iteration of its tape view going on between its
\* advances, on the tables of at most one entry and the demonstration.
ViewTables == {<<>>} \cup UNION {[{key} -> Values] : key \in Keys}

ViewInit ==
    /\ tapelist \in TapeLists \cup {demotape, inttape, texttape}
    /\ table \in ViewTables \cup {instructions}
    /\ machine = "none"
    /\ hasTape = FALSE
    /\ tape = <<>>
    /\ minIndex = 0
    /\ maxIndex = 0
    /\ chartape = <<>>
    /\ view = NoView
    /\ state = 0
    /\ head = 0
    /\ started = FALSE
    /\ frame = NoFrame
    /\ result = NoResult
    /\ calls = 0
    /\ it = NoIter

ViewNext == Construct \/ next \/ iterate

ViewSpec == ViewInit /\ [][ViewNext]_vars

(***************************************************************************)
(* A Tape on its own: Tape.__init__ and Tape.__setitem__ called directly.  *)
(***************************************************************************)

\* The cell numbers and the values the writes use.
WriteKeys == {-2, 0, 5}
WriteValues == {"0", "", "#"}

TapeInit ==
    /\ tapelist \in TapeLists \cup {inttape, texttape}
    /\ table = <<>>
    /\ machine = "none"
    /\ hasTape = FALSE
    /\ tape = <<>>
    /\ minIndex = 0
    /\ maxIndex = 0
    /\ chartape = <<>>
    /\ view = NoView
    /\ state = 0
    /\ head = 0
    /\ started = FALSE
    /\ frame = NoFrame
    /\ result = NoResult
    /\ calls = 0
    /\ it = NoIter

\* Tape.__init__: ValueError on a cell that is not one character of SYMBOLS,
\* ValueError from min() when no cell is stored, else the Tape and its view.
TapeNew ==
    /\ machine = "none"
    /\ LET d == TapeDict(tapelist)
           cells == IF KeysAreChars(tapelist) THEN <<>> ELSE d
           chars == IF KeysAreChars(tapelist) THEN d ELSE <<>>
       IN
       IF InvalidCells(d)
       THEN /\ machine' = "InvalidTapeDescription"
            /\ UNCHANGED <<hasTape, tape, minIndex, maxIndex, chartape, view>>
       ELSE IF MinMaxRaises(cells, chars) = "ValueError"
       THEN /\ machine' = "EmptySequence"
            /\ UNCHANGED <<hasTape, tape, minIndex, maxIndex, chartape, view>>
       ELSE /\ machine' = "tape"
            /\ hasTape' = TRUE
            /\ tape' = cells
            /\ chartape' = chars
            /\ minIndex' = MinKey(cells, chars)
            /\ maxIndex' = MaxKey(cells, chars)
            /\ view' = TapeView(cells)
    /\ UNCHANGED <<tapelist, table, state, head, started, frame, result, calls, it>>

\* The locals key and value of one call of Tape.__setitem__.
WriteFrame(key, value) == [key |-> key, value |-> value]

\* Tape.__setitem__(key, value): the cell is deleted or stored, then the
\* two indices are recomputed, with ValueError from min() when no cell is
\* left and TypeError when the keys are integers and characters.
Write(key, value) ==
    /\ machine = "tape"
    /\ calls < MaxWrites
    /\ LET d == SetItem(tape, key, value)
       IN /\ tape' = d
          /\ IF MinMaxRaises(d, chartape) # "no"
             THEN /\ result' = Raise(MinMaxRaises(d, chartape))
                  /\ UNCHANGED <<minIndex, maxIndex>>
             ELSE /\ minIndex' = MinKey(d, chartape)
                  /\ maxIndex' = MaxKey(d, chartape)
                  /\ result' = [NoResult EXCEPT !.kind = "return"]
    /\ frame' = WriteFrame(key, value)
    /\ calls' = calls + 1
    /\ UNCHANGED it
    /\ UNCHANGED <<tapelist, table, machine, hasTape, chartape, view, state, head, started>>

setitem == \E key \in WriteKeys, value \in WriteValues : Write(key, value)

TapeNext == TapeNew \/ setitem \/ iterate

TapeSpec == TapeInit /\ [][TapeNext]_vars

(***************************************************************************)
(* Properties                                                              *)
(***************************************************************************)

\* C1: every advance that finds a transition (w, m, q) for the state s and
\* the symbol under the head h leaves w in cell h (blank when w is blank),
\* the state q and the head h + d, d the displacement of m, and returns a
\* report carrying that state and that head.
C1_TransitionApplied ==
    [][(calls' = calls + 1 /\ started
            /\ <<state, IF head \in DOMAIN tape THEN tape[head] ELSE NONE>> \in DOMAIN table)
        => LET t == table[<<state, IF head \in DOMAIN tape THEN tape[head] ELSE NONE>>]
               d == CASE t[2] \in {"Right", "int1"} -> 1
                      [] t[2] \in {"Left", "intm1"} -> -1
                      [] OTHER -> 0
           IN /\ IF t[1] = "" THEN head \notin DOMAIN tape'
                 ELSE head \in DOMAIN tape' /\ tape'[head] = t[1]
              /\ state' = t[3]
              /\ head' = head + d
              /\ result'.kind = "report"
              /\ result'.state = <<t[3]>>
              /\ result'.head = <<head + d>>]_vars

\* C2: once an advance has raised StopIteration, the next advance raises it
\* too, and neither changes the state, the head or the tape.
C2_HaltedIsTerminal ==
    [][calls' = calls + 1
        => /\ result.kind = "StopIteration" => result'.kind = "StopIteration"
           /\ result'.kind = "StopIteration"
                 => state' = state /\ head' = head /\ tape' = tape]_vars

\* The demonstration machine has halted on its 11th call and was advanced
\* once more.
C2_Witness ==
    /\ table = instructions /\ tapelist = demotape
    /\ calls = 12 /\ result.kind = "StopIteration" /\ state = 2 /\ head = 8

\* C3: an advance leaves (state, head, tape) unchanged or as one whole
\* transition makes it: cell written, state changed, head moved.
C3_AdvanceAtomic ==
    [][calls' = calls + 1
        => \/ state' = state /\ head' = head /\ tape' = tape
           \/ /\ <<state, IF head \in DOMAIN tape THEN tape[head] ELSE NONE>> \in DOMAIN table
              /\ LET t == table[<<state, IF head \in DOMAIN tape THEN tape[head] ELSE NONE>>]
                     d == CASE t[2] \in {"Right", "int1"} -> 1
                            [] t[2] \in {"Left", "intm1"} -> -1
                            [] OTHER -> 0
                 IN /\ state' = t[3]
                    /\ head' = head + d
                    /\ DOMAIN tape' = IF t[1] = "" THEN (DOMAIN tape) \ {head}
                                      ELSE (DOMAIN tape) \cup {head}
                    /\ \A k \in DOMAIN tape' :
                          tape'[k] = IF k = head THEN t[1] ELSE tape[k]]_vars

\* C4: the first advance, and only the first, performs no transition: it
\* leaves state 0, head 0 and the tape as constructed and returns the report
\* of that configuration with an empty action report, whatever the table;
\* every later advance looks up an instruction and halts or follows it.
C4_FirstAdvanceOnly ==
    [][calls' = calls + 1
        => IF calls = 0
           THEN /\ state' = 0 /\ head' = 0 /\ tape' = tape
                /\ result'.kind = "report"
                /\ result'.state = <<0>> /\ result'.head = <<0>>
                /\ result'.cell_written = <<>>
                /\ result'.symbol_written = NONE
                /\ result'.move = NONE
           ELSE \/ /\ <<state, IF head \in DOMAIN tape THEN tape[head] ELSE NONE>> \notin DOMAIN table
                   /\ result'.kind = "StopIteration"
                \/ /\ <<state, IF head \in DOMAIN tape THEN tape[head] ELSE NONE>> \in DOMAIN table
                   /\ state' = table[<<state, IF head \in DOMAIN tape THEN tape[head] ELSE NONE>>][3]
                   /\ result'.kind # "StopIteration"]_vars

\* The first advance has returned its report although no instruction matches
\* the initial configuration.
C4_Witness ==
    /\ calls = 1 /\ result.kind = "report" /\ result.move = NONE
    /\ <<state, IF head \in DOMAIN tape THEN tape[head] ELSE NONE>> \notin DOMAIN table

\* C5: an advance after the first raises StopIteration exactly when the table
\* has no entry for (state, symbol under the head), and then returns no
\* report; with an empty table the second advance raises it.
C5_HaltsIffNoEntry ==
    [][(calls' = calls + 1 /\ calls >= 1)
        => /\ result'.kind = "StopIteration"
                <=> <<state, IF head \in DOMAIN tape THEN tape[head] ELSE NONE>> \notin DOMAIN table
           /\ result'.kind = "StopIteration"
                => /\ result'.state = <<>> /\ result'.head = <<>>
                   /\ result'.cell_written = <<>> /\ result'.move = NONE
           /\ (DOMAIN table = {} /\ calls = 1) => result'.kind = "StopIteration"]_vars

\* A machine with an empty table has halted on its second advance.
C5_Witness ==
    /\ DOMAIN table = {} /\ calls = 2 /\ result.kind = "StopIteration"

\* C6, as claimed: every advance that applies a transition reports as
\* cell_written the head position before the move, whatever the symbol
\* written and the move.
C6_CellWrittenAlways ==
    [][(calls' = calls + 1 /\ calls >= 1 /\ result'.kind = "report")
        => result'.cell_written = <<head>>]_vars

\* C6, amended: cell_written is the head position before the move when the
\* report carries a written symbol, and is absent when it carries none (as
\* when blank is written).
C6_CellWrittenWhenPrinted ==
    [][(calls' = calls + 1 /\ calls >= 1 /\ result'.kind = "report")
        => /\ result'.symbol_written # NONE => result'.cell_written = <<head>>
           /\ result'.symbol_written = NONE => result'.cell_written = <<>>
           /\ table[<<state, IF head \in DOMAIN tape THEN tape[head] ELSE NONE>>][1] = ""
                 => result'.cell_written = <<>>]_vars

\* A symbol was printed and the head then moved on to the cell on the left.
C6_Witness ==
    /\ result.kind = "report" /\ result.move = "Left"
    /\ result.symbol_written = "0" /\ result.cell_written = <<head + 1>>

\* C7: every advance that applies a transition (w, m, q) reports
\* symbol_written = w when w is not blank, no symbol when w is blank, and
\* move = m.
C7_SymbolAndMoveReported ==
    [][(calls' = calls + 1 /\ calls >= 1 /\ result'.kind = "report")
        => LET t == table[<<state, IF head \in DOMAIN tape THEN tape[head] ELSE NONE>>]
           IN /\ result'.symbol_written = IF t[1] = "" THEN NONE ELSE t[1]
              /\ result'.move = t[2]]_vars

\* C8: in state s on a blank cell (a cell that is not stored, which reads as
\* None) the entry keyed (s, None), when there is one, is the instruction
\* followed (no halt, its symbol printed, its next state taken); on a stored
\* symbol without an entry of its own the machine halts and changes nothing,
\* even when (s, None) is in the table.
C8_SentinelMatchesBlankOnly ==
    [][(calls' = calls + 1 /\ calls >= 1)
        => /\ (head \notin DOMAIN tape /\ <<state, NONE>> \in DOMAIN table)
                 => /\ result'.kind # "StopIteration"
                    /\ state' = table[<<state, NONE>>][3]
                    /\ IF table[<<state, NONE>>][1] = "" THEN head \notin DOMAIN tape'
                       ELSE head \in DOMAIN tape' /\ tape'[head] = table[<<state, NONE>>][1]
           /\ (head \in DOMAIN tape /\ <<state, tape[head]>> \notin DOMAIN table)
                 => /\ result'.kind = "StopIteration"
                    /\ state' = state /\ head' = head /\ tape' = tape]_vars

\* The machine has halted on a non-blank symbol although the table has an
\* entry keyed by None for its state.
C8_Witness ==
    /\ result.kind = "StopIteration"
    /\ head \in DOMAIN tape
    /\ <<state, NONE>> \in DOMAIN table
    /\ frame.symbol_under_head = tape[head]

\* C9: the demonstration.  The head first reaches cell 7 with the 8th call,
\* in state 0 with "1001011" in the cells 0..6 and cell 7 blank; the 9th
\* call prints nothing and enters state 1; the 10th prints '1' at cell 8
\* with the move Stay and enters state 2; the 11th call halts, in state 2.
C9_Demonstration ==
    (machine = "ok" /\ table = instructions /\ tapelist = demotape)
    => /\ calls < 8 => head < 7
       /\ calls \in 1..10 => result.kind = "report"
       /\ calls = 8
            => /\ head = 7 /\ state = 0
               /\ tape = [k \in 0..6 |-> <<"1", "0", "0", "1", "0", "1", "1">>[k + 1]]
       /\ calls = 9
            => /\ head = 8 /\ state = 1
               /\ result.symbol_written = NONE /\ result.cell_written = <<>>
               /\ result.move = "Right" /\ result.state = <<1>>
               /\ tape = [k \in 0..6 |-> <<"1", "0", "0", "1", "0", "1", "1">>[k + 1]]
       /\ calls = 10
            => /\ head = 8 /\ state = 2
               /\ result.symbol_written = "1" /\ result.cell_written = <<8>>
               /\ result.move = "Stay" /\ result.state = <<2>>
               /\ DOMAIN tape = (0..6) \cup {8} /\ tape[8] = "1"
       /\ calls >= 11 => result.kind = "StopIteration" /\ state = 2 /\ head = 8

\* The demonstration machine has halted with its 11th call.
C9_Witness ==
    /\ machine = "ok" /\ table = instructions /\ tapelist = demotape
    /\ calls = 11 /\ result.kind = "StopIteration" /\ state = 2

\* C10: construction raises the table's ValueError, with no Tape built and
\* no machine, exactly when some entry has a key symbol that is neither None
\* nor (convertible to) a member of the alphabet SYMBOLS, or an output
\* symbol that is neither (convertible to) a character of the alphabet nor
\* blank, or a move that is neither a member of Move nor -1, 0 or 1.
C10_InvalidTable ==
    machine # "none"
    => /\ machine = "InvalidTable"
            <=> \E key \in DOMAIN table :
                   \/ key[2] \notin SYMBOLS \cup {NONE, "int0", "int1", "int2"}
                   \/ table[key][1] \notin SYMBOLS \cup {"int0", "int1", "int2"}
                   \/ table[key][2] \notin {"Stay", "Right", "Left", "intm1", "int0", "int1"}
       /\ machine = "InvalidTable"
            => ~ hasTape /\ tape = <<>> /\ ~ started /\ calls = 0

\* Construction has failed on a table with an illegal move, and the tape
\* description, itself invalid, was never looked at.
C10_Witness ==
    /\ machine = "InvalidTable" /\ ~ hasTape
    /\ \E key \in DOMAIN table : table[key][2] = "int2"
    /\ tapelist.chars = <<"#">>

\* C11: after construction and after any writes no stored cell holds the
\* blank value, neither '' (the value a write treats as blank) nor None.
C11_NoBlankStored ==
    hasTape => /\ \A k \in DOMAIN tape : tape[k] \notin {"", NONE}
               /\ \A k \in DOMAIN chartape : chartape[k] \notin {"", NONE}

\* C12: a write of blank that removes the last stored cell completes without
\* error, and an iteration of the tape that is then entirely blank yields
\* nothing: its first next() ends it.
C12_EraseLastCell ==
    [][/\ (machine = "tape" /\ calls' = calls + 1 /\ frame'.value = ""
              /\ DOMAIN tape # {} /\ DOMAIN tape' = {})
          => result'.kind = "return"
       /\ (machine = "tape" /\ DOMAIN tape = {}
              /\ it.status = "created" /\ it'.status # "created")
          => it'.status = "done"]_vars

\* C13: a write of a symbol that is neither in the alphabet nor blank fails
\* with InvalidSymbol and leaves the cells and the two indices unchanged.
C13_WriteValidates ==
    [][(machine = "tape" /\ calls' = calls + 1 /\ frame'.value \notin SYMBOLS)
        => /\ result'.kind = "InvalidSymbol"
           /\ tape' = tape /\ minIndex' = minIndex /\ maxIndex' = maxIndex]_vars

\* C14: after construction and after every completed write, on a tape with
\* a non-blank cell, _minIndex and _maxIndex are the smallest and the
\* largest index of a non-blank cell, and an iteration yields (i, read(i))
\* for every i from the one to the other, ascending, with blank in the gaps:
\* its first pair is at the smallest non-blank index, every later pair is at
\* the next index, and it ends after the largest non-blank index.
C14_IndicesTrackNonBlank ==
    [][LET nonblank == {k \in DOMAIN tape : tape[k] \notin {"", NONE}}
           settled == hasTape /\ result.kind \in {"none", "return"} /\ nonblank # {}
           nonblank1 == {k \in DOMAIN tape' : tape'[k] \notin {"", NONE}}
           settled1 == hasTape' /\ result'.kind \in {"none", "return"} /\ nonblank1 # {}
       IN /\ settled1 => /\ \A k \in nonblank1 : minIndex' <= k /\ k <= maxIndex'
                         /\ minIndex' \in nonblank1 /\ maxIndex' \in nonblank1
          /\ (settled /\ it.status = "created" /\ it'.status # "created")
                => /\ it'.status = "running"
                   /\ it'.last = <<Min(nonblank), tape[Min(nonblank)]>>
                   /\ it'.stop = Max(nonblank)
          /\ (settled /\ it.status = "running" /\ it' # it)
                => IF it.i < it.stop
                   THEN it'.last = <<it.i + 1,
                                     IF it.i + 1 \in nonblank THEN tape[it.i + 1] ELSE NONE>>
                   ELSE it'.status = "done"]_vars

\* C15: a read of a cell that is not stored returns None; after a write of a
\* non-blank value the cell reads as that value; after a write of '' it reads
\* as None; and a write of '' to a cell that is not stored changes nothing.
C15_ReadWriteRoundTrip ==
    [][(machine = "tape" /\ calls' = calls + 1)
        => /\ \A i \in -3..6 : i \notin DOMAIN tape' => GetItem(tape', i) = NONE
           /\ frame'.value # "" => GetItem(tape', frame'.key) = frame'.value
           /\ frame'.value = "" => GetItem(tape', frame'.key) = NONE
           /\ (frame'.value = "" /\ frame'.key \notin DOMAIN tape)
                 => tape' = tape /\ minIndex' = minIndex /\ maxIndex' = maxIndex]_vars

\* A write of '' has returned on a tape that keeps other cells, and the cell
\* is gone.
C15_Witness ==
    /\ machine = "tape" /\ result.kind = "return" /\ calls >= 2
    /\ frame.value = "" /\ frame.key \notin DOMAIN tape /\ DOMAIN tape # {}

\* C16: the tape view is live: at every point of a run a read of the view,
\* the one the accessor returns or the one the last report carries, yields
\* the cell the tape holds now, and every pair an iteration of the view
\* yields carries the cell the tape holds at the time of that pair.
C16_ViewIsLive ==
    /\ [](machine = "ok" =>
            \A v \in {view} \cup (IF result.kind = "report" THEN {result.tape} ELSE {}) :
                \A i \in (DOMAIN tape) \cup ((head - 2)..(head + 2)) :
                    ViewGetItem(v, i) = IF i \in DOMAIN tape THEN tape[i] ELSE NONE)
    /\ [][(machine = "ok" /\ it' # it /\ it'.status = "running")
            => it'.last = <<it'.i, IF it'.i \in DOMAIN tape THEN tape[it'.i] ELSE NONE>>]_vars

\* The view was handed out at construction and in a report, advances have
\* changed the cells since, and an iteration of the view has yielded a cell
\* that an advance wrote.
C16_Witness ==
    /\ machine = "ok" /\ result.kind = "report" /\ result.tape = view
    /\ tape # TapeDict(tapelist) /\ calls >= 2
    /\ it.status = "running" /\ it.of = view
    /\ it.last[2] # GetItem(TapeDict(tapelist), it.last[1])

\* C17: an advance that applies an entry whose move is one of the integers
\* -1, 0, 1 completes and displaces the head by that integer.
C17_IntegerMoves ==
    [][(machine = "ok" /\ started /\ calls' = calls + 1
          /\ <<state, IF head \in DOMAIN tape THEN tape[head] ELSE NONE>> \in DOMAIN table
          /\ IsLegalInt(table[<<state, IF head \in DOMAIN tape THEN tape[head] ELSE NONE>>][2]))
        => LET mv == table[<<state, IF head \in DOMAIN tape THEN tape[head] ELSE NONE>>][2]
           IN /\ result'.kind = "report"
              /\ head' = head + (CASE mv = "int1" -> 1 [] mv = "int0" -> 0 [] mv = "intm1" -> -1)]_vars

\* C18: an advance changes at most the cell at the head position before the
\* move, never changes the table, and changes nothing when it signals Halted.
C18_AdvanceFrame ==
    [][(machine = "ok" /\ calls' = calls + 1)
        => /\ \A k \in ((DOMAIN tape) \cup (DOMAIN tape')) \ {head} :
                 k \in DOMAIN tape /\ k \in DOMAIN tape' /\ tape'[k] = tape[k]
           /\ table' = table
           /\ result'.kind = "StopIteration" =>
                 UNCHANGED <<tape, chartape, minIndex, maxIndex, state, head, started, view>>]_vars

\* An advance has written a cell that the construction did not store, a
\* cell of the construction is still stored, and a later advance has
\* halted.
C18_Witness ==
    /\ machine = "ok" /\ result.kind = "StopIteration" /\ DOMAIN chartape = {}
    /\ \E k \in DOMAIN tape : k \notin DOMAIN TapeDict(tapelist)
    /\ \E k \in DOMAIN tape : k \in DOMAIN TapeDict(tapelist)

\* C19: after any advances of a machine whose table passed validation every
\* stored cell holds a one-character string of the alphabet, an integer
\* output symbol being stored as its character.
C19_CellsAreSymbols ==
    machine = "ok" => \A k \in DOMAIN tape : tape[k] \in SYMBOLS

\* C20: a Tape built from an empty description, or from pairs that all carry
\* None, is built without error and is entirely blank: no cell is stored and
\* an iteration yields nothing.
C20_EmptyDescription ==
    [][LET empty == /\ tapelist.chars = <<>>
                    /\ \A i \in 1..Len(tapelist.pairs) : tapelist.pairs[i][2] = NONE
       IN /\ (machine' # "none" /\ empty) => (hasTape' /\ DOMAIN tape' = {})
          /\ (empty /\ calls = 0 /\ it.status = "created" /\ it'.status # "created")
                => it'.status = "done"]_vars

====
